---- MODULE Spec2Model ----
(***************************************************************************)
(* Model of watcher.py: the nginx access-log watcher that detects pool     *)
(* failovers and 5xx error-rate breaches and alerts Slack under a          *)
(* per-category cooldown.                                                  *)
(*                                                                         *)
(* A log line is a sequence of whitespace-separated tokens.  A token       *)
(* "key=v1:v2:..." is the record [key |-> key, val |-> <<v1, v2, ...>>],   *)
(* where each colon-separated sub-value is a sequence of atoms (a digit,   *)
(* a sign, or an opaque word).  A token without "key=" has key "".         *)
(***************************************************************************)
EXTENDS Integers, Sequences, FiniteSets, TLC

\* ------------------------------------------------------------------ bounds
MaxTime == 4
MaxWindow == 2

\* --------------------------------------------------------------- variables
VARIABLES
    SLACK_WEBHOOK,        \* TRUE iff SLACK_WEBHOOK_URL is a non-empty string
    ERROR_THRESHOLD,      \* float(ERROR_RATE_THRESHOLD); whole percents here
    WINDOW_SIZE,          \* int(WINDOW_SIZE)
    COOLDOWN,             \* int(ALERT_COOLDOWN_SEC)
    MAINTENANCE_MODE,     \* MAINTENANCE_MODE == 'true'
    last_pool,            \* None or the last pool seen by detect_failover
    last_failover_alert,  \* time.time() of the last failover alert, 0 at start
    last_error_alert,     \* time.time() of the last error alert, 0 at start
    request_window,       \* deque(maxlen=WINDOW_SIZE), oldest first
    pc,                   \* position of the driver inside tail_log
    pool,                 \* local `pool` of process_log_line
    exit_code,            \* NoExit while running, else the sys.exit status
    terminated,           \* TRUE once process.terminate() was called
    clock,                \* what time.time() returns
    source,               \* the lines the log source may yield
    out,                  \* what the last step of the driver did (observation)
    seen_pool,            \* observation: the valid pool of the last fully processed
                          \* line that carried one
    unreported,           \* observation: the first pool change whose alert
                          \* was suppressed since the last failover alert
    triggers              \* observation: per category, the time of the last
                          \* trigger (NoTime if none) and how many so far (2 = more)

config == <<SLACK_WEBHOOK, ERROR_THRESHOLD, WINDOW_SIZE, COOLDOWN, MAINTENANCE_MODE, source>>
state == <<last_pool, last_failover_alert, last_error_alert, request_window>>
driver == <<pc, pool, exit_code, terminated>>
observed == <<out, seen_pool, unreported, triggers>>
vars == <<config, state, driver, clock, observed>>

\* Python's None where a pool is expected: no token value is empty (\S+), so
\* the empty value stands for it
None == <<>>
NoExit == -1

\* ----------------------------------------------------------- log lines
Tok(k, v) == [key |-> k, val |-> v]
Word(w) == << <<w>> >>
Num3(a, b, c) == <<a, b, c>>

S200 == Num3("2", "0", "0")
S502 == Num3("5", "0", "2")

Blue == Word("blue")
Green == Word("green")
Dash == Word("-")

\* pool=<p> release=v1 upstream_status=<parts joined by ':'>
AccessLine(p, parts) ==
    << Tok("pool", p), Tok("release", Word("v1")), Tok("upstream_status", parts) >>

\* text of a token value is non-empty: what \S+ needs
NonEmpty(v) == Len(v) > 1 \/ (Len(v) = 1 /\ Len(v[1]) > 0)

\* pool=blue release=v1 upstream_status=502 : 502 : 200
\* (retry, written with blanks: the colons are tokens of their own)
SpacedRetryLine ==
    AccessLine(Blue, <<S502>>) \o
        << Tok("", << <<>>, <<>> >>), Tok("", <<S502>>),
           Tok("", << <<>>, <<>> >>), Tok("", <<S200>>) >>

\* release=v1 upstream_status=502  (no pool field at all)
NoPoolLine == << Tok("release", Word("v1")), Tok("upstream_status", <<S502>>) >>

\* GET /  (an access entry without the watched fields)
PlainLine == << Tok("", Word("GET")), Tok("", Word("/")) >>

Lines ==
    { AccessLine(Blue, <<S200>>),
      AccessLine(Green, <<S200>>),
      AccessLine(Blue, <<S502>>),
      AccessLine(Green, <<S502>>),
      AccessLine(Dash, <<S502>>),
      \* upstream_status=-  (no upstream answered)
      AccessLine(Green, Dash),
      \* upstream_status=502:200  (retry, written without blanks)
      AccessLine(Blue, <<S502, S200>>),
      SpacedRetryLine,
      NoPoolLine,
      PlainLine }

ErrorLines == { AccessLine(Blue, <<S502>>), AccessLine(Green, <<S502>>) }

\* what the source yields while the one live pool answers 502 to everything
OutageLines == { AccessLine(Blue, <<S502>>) }

\* LOG_PATTERN.search(line): the first position where the three fields follow
\* one another, each with a non-empty value; matched is FALSE when there is none.
MatchAt(line, i) ==
    /\ i + 2 <= Len(line)
    /\ line[i].key = "pool" /\ NonEmpty(line[i].val)
    /\ line[i + 1].key = "release" /\ NonEmpty(line[i + 1].val)
    /\ line[i + 2].key = "upstream_status" /\ NonEmpty(line[i + 2].val)

\* a pattern under which a line without the fields counts as pool=- status 0
LogPatternLenient(line) ==
    IF \E i \in 1..Len(line) : MatchAt(line, i)
    THEN LET i == CHOOSE j \in 1..Len(line) :
                    MatchAt(line, j) /\ \A h \in 1..(j - 1) : ~MatchAt(line, h)
         IN [matched |-> TRUE, pool |-> line[i].val, status |-> line[i + 2].val]
    ELSE [matched |-> TRUE, pool |-> Dash, status |-> Dash]

LOG_PATTERN(line) ==
    IF \E i \in 1..Len(line) : MatchAt(line, i)
    THEN LET i == CHOOSE j \in 1..Len(line) :
                    MatchAt(line, j) /\ \A h \in 1..(j - 1) : ~MatchAt(line, h)
         IN [matched |-> TRUE, pool |-> line[i].val, status |-> line[i + 2].val]
    ELSE [matched |-> FALSE, pool |-> <<>>, status |-> <<>>]

\* int(s): decimal digits with an optional sign; ValueError otherwise
Digits == {"0", "1", "2", "3", "4", "5", "6", "7", "8", "9"}
DigitVal(c) ==
    CASE c = "0" -> 0 [] c = "1" -> 1 [] c = "2" -> 2 [] c = "3" -> 3
      [] c = "4" -> 4 [] c = "5" -> 5 [] c = "6" -> 6 [] c = "7" -> 7
      [] c = "8" -> 8 [] c = "9" -> 9

RECURSIVE DecVal(_)
DecVal(s) ==
    IF s = <<>> THEN 0
    ELSE 10 * DecVal(SubSeq(s, 1, Len(s) - 1)) + DigitVal(s[Len(s)])

IsDec(s) == Len(s) > 0 /\ \A i \in 1..Len(s) : s[i] \in Digits

\* status = int(status_str.split(':')[-1].strip()), 0 on ValueError
ParseStatus(status_str) ==
    LET last == status_str[Len(status_str)]
    IN  IF IsDec(last) THEN DecVal(last)
        ELSE IF Len(last) > 1 /\ last[1] \in {"-", "+"} /\ IsDec(Tail(last))
             THEN (IF last[1] = "-" THEN 0 - DecVal(Tail(last)) ELSE DecVal(Tail(last)))
             ELSE 0

\* ------------------------------------------------- the sliding window
\* a window that drops the newest entry when full
WindowAppendKeepOld(w, status, maxlen) ==
    IF Len(w) >= maxlen THEN w ELSE Append(w, status)

\* request_window.append(status) on a deque(maxlen=WINDOW_SIZE)
WindowAppend(w, status, maxlen) ==
    IF maxlen = 0 THEN <<>>
    ELSE IF Len(w) = maxlen THEN Append(Tail(w), status)
    ELSE Append(w, status)

\* what the append dropped, NoStatus if nothing
NoStatus == -1
Evicted(w, maxlen) == IF Len(w) = maxlen /\ Len(w) > 0 THEN Head(w) ELSE NoStatus

\* errors = sum(1 for status in request_window if status >= 500)
IsError(status) == status >= 500
ErrorCount(w) == Cardinality({i \in 1..Len(w) : IsError(w[i])})

\* ------------------------------------------- error_rate > ERROR_THRESHOLD
(***************************************************************************)
(* error_rate = (errors / len(request_window)) * 100 is computed in IEEE   *)
(* binary64: the quotient is rounded to 53 bits, then the product with 100 *)
(* is rounded to 53 bits.  With e = errors >= 1 and n = len, let k be the  *)
(* least k with e*2^k >= n and A = e*2^(k+52).  The quotient is M units of *)
(* 2^-(k+52), M = (A + d)/n with d the rounding offset; the product is     *)
(* (100*M + c) units with c the second rounding offset.  Both offsets are  *)
(* found from A mod 256n, so every number below stays small.               *)
(*   error_rate > t  <=>  2^(k+52)*(100e - t*n) + (100d + c*n) > 0         *)
(* and the first term, when not 0, outweighs the second.                   *)
(***************************************************************************)
RECURSIVE MulPow2Mod(_, _, _)
MulPow2Mod(x, p, m) == IF p = 0 THEN x % m ELSE MulPow2Mod((2 * x) % m, p - 1, m)

RECURSIVE Pow2(_)
Pow2(k) == IF k = 0 THEN 1 ELSE 2 * Pow2(k - 1)

RECURSIVE NormShift(_, _, _)
NormShift(e, n, k) == IF e >= n THEN k ELSE NormShift(2 * e, n, k + 1)

\* d: n * (rounded quotient) - A, round half to even
QuotientOffset(e, n) ==
    LET k == NormShift(e, n, 0)
        a == MulPow2Mod(e, k + 52, 256 * n)
        r == a % n
        fl == a \div n
        up == 2 * r > n \/ (2 * r = n /\ fl % 2 = 1)
    IN  [k |-> k, d |-> IF up THEN n - r ELSE 0 - r,
         m |-> (fl + (IF up THEN 1 ELSE 0)) % 256]

\* c: (rounded product) - 100 * M, round half to even at 53 significant bits
ProductOffset(e, n) ==
    LET q == QuotientOffset(e, n)
        scaled == 100 * e * Pow2(q.k)
        dd == 128 * n - scaled
        big == dd < 0 \/ (dd = 0 /\ q.d >= 0)
        u == IF big THEN 128 ELSE 64
        p == (100 * q.m) % (2 * u)
        r == p % u
        up == 2 * r > u \/ (2 * r = u /\ p >= u)
    IN  IF up THEN u - r ELSE 0 - r

\* sign of (errors / n) * 100 - 100*errors/n: the rounding error of the rate
RateError(errors, n) ==
    IF errors = 0 THEN 0
    ELSE 100 * QuotientOffset(errors, n).d + ProductOffset(errors, n) * n

RateExceeds(errors, n, threshold) ==
    IF 100 * errors # threshold * n THEN 100 * errors > threshold * n
    ELSE RateError(errors, n) > 0

\* a sample check that is off by one
InsufficientSampleShort(w, size) == Len(w) < size - 1

\* if len(request_window) < WINDOW_SIZE: return
InsufficientSample(w, size) == Len(w) < size

\* ------------------------------------------------------- the cooldown
\* a cooldown that also lets a trigger through exactly COOLDOWN after the last
CooldownExpiredInclusive(now, last, cooldown) == now - last >= cooldown

\* a cooldown that opens once and never again
CooldownExpiredOnce(now, last, cooldown) == now - last > cooldown /\ last = 0

\* now - last_alert > COOLDOWN
CooldownExpired(now, last, cooldown) == now - last > cooldown

\* a timer that is also set when the trigger is suppressed
NewAlertTimeAlways(now, last, expired, post) == now

\* a timer that is rolled back when the POST fails
NewAlertTimeOnSuccess(now, last, expired, post) ==
    IF expired /\ post \notin {"http_error", "exception"} THEN now ELSE last

\* last_..._alert after a trigger: `= now` stands inside the cooldown branch,
\* after send_slack_alert has returned, whatever the POST came to
NewAlertTime(now, last, expired, post) == IF expired THEN now ELSE last

\* an error check that reads the failover timer
ErrorTimerShared == last_failover_alert

\* the timer check_error_rate compares against: its own
ErrorTimer == last_error_alert

\* ------------------------------------------------- the failover detector
\* if last_pool is None
Uninitialized(last) == last = None

\* a detector that reports every observation
PoolChangedAlways(current_pool, last) == TRUE

\* if current_pool != last_pool
PoolChanged(current_pool, last) == current_pool # last

\* a detector that follows the pool only when it alerts
TrackedPoolOnAlert(last, current_pool, expired) == IF expired THEN current_pool ELSE last

\* last_pool = current_pool, outside the cooldown branch
TrackedPool(last, current_pool, expired) == current_pool

\* a detector that reports the change it held back earlier
AlertPayloadHeldBack(previous_pool, current_pool) ==
    IF unreported # <<>> THEN unreported ELSE <<previous_pool, current_pool>>

\* the pools the failover alert names: last_pool and the line's pool
AlertPayload(previous_pool, current_pool) == <<previous_pool, current_pool>>

\* -------------------------------------------------------- notification
\* a sender that forgets maintenance mode
send_slack_alert_in_maintenance(webhook, maintenance) ==
    IF ~webhook THEN {"none"} ELSE {"ok", "http_error", "exception"}

\* send_slack_alert: the outcomes of the call.  "none": no POST is made
\* (no webhook, or maintenance mode); otherwise requests.post answers 200,
\* answers another status, or raises (network error, timeout).
send_slack_alert(webhook, maintenance) ==
    IF ~webhook \/ maintenance THEN {"none"} ELSE {"ok", "http_error", "exception"}

\* requests.post(..., timeout=10) blocks: the clock may move on meanwhile
PostDelay(post) == IF post = "none" THEN {0} ELSE {0, 1}

Quiet ==
    [step |-> "none", status |-> NoStatus, evicted |-> NoStatus, event |-> <<>>,
     breach |-> FALSE, suppressed |-> FALSE, alert |-> "none", msg |-> <<>>,
     post |-> "none", line |-> <<>>, signal |-> "none", line_alerts |-> {},
     unreported |-> <<>>]

NoTime == -1
Triggered(cat, now) ==
    [triggers EXCEPT ![cat] = [last |-> now, count |-> IF @.count < 2 THEN @.count + 1 ELSE 2]]

\* a guard that lets the sentinel through
ValidPoolAny(p) == NonEmpty(p)

\* if pool and pool != '-'
ValidPool(p) == NonEmpty(p) /\ p # Dash

\* a line handler that never reaches the failover check
AfterAppendNoFailover(p) == "check_error_rate"

\* after the append: detect_failover(pool) under the guard, else straight to
\* check_error_rate()
AfterAppend(p) == IF ValidPool(p) THEN "detect_failover" ELSE "check_error_rate"

\* ------------------------------------------------------------------- Init
Thresholds == {50}
Cooldowns == {1}

InitState ==
    /\ last_pool = None
    /\ last_failover_alert = 0
    /\ last_error_alert = 0
    /\ request_window = <<>>
    /\ pc = "readline"
    /\ pool = None
    /\ exit_code = NoExit
    /\ terminated = FALSE
    /\ clock = 0
    /\ out = Quiet
    /\ seen_pool = None
    /\ unreported = <<>>
    /\ triggers = [failover |-> [last |-> NoTime, count |-> 0],
                   error |-> [last |-> NoTime, count |-> 0]]

Init ==
    /\ SLACK_WEBHOOK \in BOOLEAN
    /\ MAINTENANCE_MODE \in IF SLACK_WEBHOOK THEN BOOLEAN ELSE {FALSE}
    /\ ERROR_THRESHOLD \in Thresholds
    /\ WINDOW_SIZE \in 1..MaxWindow
    /\ COOLDOWN \in Cooldowns
    /\ source = Lines
    /\ InitState

\* ---------------------------------------------------------------- actions
\* time passes
Tick ==
    /\ pc # "exited"
    /\ clock < MaxTime
    /\ clock' = clock + 1
    /\ UNCHANGED <<config, state, driver, observed>>

\* process_log_line up to the failover check: match, parse, append
ReadLine ==
    /\ pc = "readline"
    /\ \E line \in source :
         LET m == LOG_PATTERN(line)
             status == ParseStatus(m.status)
         IN  IF m.matched
             THEN /\ request_window' = WindowAppend(request_window, status, WINDOW_SIZE)
                  /\ pool' = m.pool
                  /\ pc' = AfterAppend(m.pool)
                  /\ out' = [Quiet EXCEPT !.step = "append", !.status = status,
                                          !.evicted = Evicted(request_window, WINDOW_SIZE),
                                          !.line = line]
             ELSE /\ out' = [Quiet EXCEPT !.step = "nomatch", !.line = line]
                  /\ UNCHANGED <<request_window, pool, pc>>
    /\ UNCHANGED <<config, last_pool, last_failover_alert, last_error_alert,
                   exit_code, terminated, clock, seen_pool, unreported, triggers>>

\* detect_failover(pool)
DetectFailover ==
    /\ pc = "detect_failover"
    /\ pc' = "check_error_rate"
    /\ IF Uninitialized(last_pool)
       THEN /\ last_pool' = pool
            /\ out' = [Quiet EXCEPT !.step = "detect_failover"]
            /\ UNCHANGED <<last_failover_alert, clock, unreported, triggers>>
       ELSE IF PoolChanged(pool, last_pool)
       THEN LET expired == CooldownExpired(clock, last_failover_alert, COOLDOWN) IN
            /\ last_pool' = TrackedPool(last_pool, pool, expired)
            /\ IF expired
               THEN \E post \in send_slack_alert(SLACK_WEBHOOK, MAINTENANCE_MODE) :
                    \E dt \in PostDelay(post) :
                      /\ clock + dt <= MaxTime
                      /\ clock' = clock + dt
                      /\ last_failover_alert' =
                             NewAlertTime(clock, last_failover_alert, expired, post)
                      /\ triggers' = Triggered("failover", clock)
                      /\ out' = [Quiet EXCEPT !.step = "detect_failover",
                                   !.event = <<last_pool, pool>>, !.alert = "failover",
                                   !.msg = AlertPayload(last_pool, pool),
                                   !.post = post, !.unreported = unreported,
                                   !.line_alerts = {"failover"}]
                      /\ unreported' = <<>>
               ELSE /\ last_failover_alert' =
                           NewAlertTime(clock, last_failover_alert, expired, "none")
                    /\ out' = [Quiet EXCEPT !.step = "detect_failover",
                                 !.event = <<last_pool, pool>>, !.suppressed = TRUE]
                    /\ unreported' = IF unreported = <<>>
                                     THEN <<last_pool, pool>> ELSE unreported
                    /\ UNCHANGED <<clock, triggers>>
       ELSE /\ out' = [Quiet EXCEPT !.step = "detect_failover"]
            /\ UNCHANGED <<last_pool, last_failover_alert, clock, unreported,
                           triggers>>
    /\ UNCHANGED <<config, last_error_alert, request_window, pool, exit_code,
                   terminated, seen_pool>>

\* check_error_rate(), then back to the read loop
CheckErrorRate ==
    /\ pc = "check_error_rate"
    /\ pc' = "readline"
    /\ pool' = None
    /\ seen_pool' = IF ValidPool(pool) THEN pool ELSE seen_pool
    /\ IF InsufficientSample(request_window, WINDOW_SIZE)
       THEN /\ out' = [Quiet EXCEPT !.step = "check_error_rate",
                                    !.line_alerts = out.line_alerts]
            /\ UNCHANGED <<last_error_alert, clock, triggers>>
       ELSE LET errors == ErrorCount(request_window)
                expired == CooldownExpired(clock, ErrorTimer, COOLDOWN) IN
            IF RateExceeds(errors, Len(request_window), ERROR_THRESHOLD)
            THEN IF expired
                 THEN \E post \in send_slack_alert(SLACK_WEBHOOK, MAINTENANCE_MODE) :
                      \E dt \in PostDelay(post) :
                        /\ clock + dt <= MaxTime
                        /\ clock' = clock + dt
                        /\ last_error_alert' =
                               NewAlertTime(clock, last_error_alert, expired, post)
                        /\ triggers' = Triggered("error", clock)
                        /\ out' = [Quiet EXCEPT !.step = "check_error_rate",
                                     !.breach = TRUE, !.alert = "error",
                                     !.msg = <<errors, Len(request_window)>>,
                                     !.post = post,
                                     !.line_alerts = out.line_alerts \cup {"error"}]
                 ELSE /\ last_error_alert' =
                             NewAlertTime(clock, last_error_alert, expired, "none")
                      /\ out' = [Quiet EXCEPT !.step = "check_error_rate",
                                   !.breach = TRUE, !.suppressed = TRUE,
                                   !.line_alerts = out.line_alerts]
                      /\ UNCHANGED <<clock, triggers>>
            ELSE /\ out' = [Quiet EXCEPT !.step = "check_error_rate",
                                         !.line_alerts = out.line_alerts]
                 /\ UNCHANGED <<last_error_alert, clock, triggers>>
    /\ UNCHANGED <<config, last_pool, last_failover_alert, request_window, unreported,
                   exit_code, terminated>>

\* an interrupt handler that leaves tail running
InterruptNoTerminate ==
    /\ pc # "exited"
    /\ pc' = "exited"
    /\ exit_code' = 0
    /\ out' = [out EXCEPT !.signal = "KeyboardInterrupt"]
    /\ UNCHANGED <<config, state, pool, terminated, clock, seen_pool, unreported, triggers>>

\* KeyboardInterrupt inside the try of tail_log
Interrupt ==
    /\ pc # "exited"
    /\ pc' = "exited"
    /\ terminated' = TRUE
    /\ exit_code' = 0
    /\ out' = [out EXCEPT !.signal = "KeyboardInterrupt"]
    /\ UNCHANGED <<config, state, pool, clock, seen_pool, unreported, triggers>>

\* readline returns '' (tail has gone): the for loop ends and tail_log returns
StreamEnd ==
    /\ pc = "readline"
    /\ pc' = "exited"
    /\ exit_code' = 0
    /\ out' = [out EXCEPT !.signal = "eof"]
    /\ UNCHANGED <<config, state, pool, terminated, clock, seen_pool, unreported, triggers>>

\* readline raises: except Exception in tail_log
StreamError ==
    /\ pc = "readline"
    /\ pc' = "exited"
    /\ terminated' = TRUE
    /\ exit_code' = 1
    /\ out' = [out EXCEPT !.signal = "exception"]
    /\ UNCHANGED <<config, state, pool, clock, seen_pool, unreported, triggers>>

Next ==
    \/ Tick
    \/ ReadLine
    \/ DetectFailover
    \/ CheckErrorRate
    \/ Interrupt
    \/ StreamEnd
    \/ StreamError

Spec == Init /\ [][Next]_vars

(***************************************************************************)
(* A second configuration: WINDOW_SIZE=20, ERROR_RATE_THRESHOLD=55, taken   *)
(* up after 19 lines "pool=- release=v1 upstream_status=..." (9 answered    *)
(* 200, then 10 answered 502) have been processed: the window is one short *)
(* of full, no pool has been seen and no check has fired.  From here the    *)
(* log carries 502 answers only.                                           *)
(***************************************************************************)
InitFloat ==
    /\ SLACK_WEBHOOK = TRUE
    /\ MAINTENANCE_MODE = FALSE
    /\ ERROR_THRESHOLD = 55
    /\ WINDOW_SIZE = 20
    /\ COOLDOWN \in Cooldowns
    /\ source = ErrorLines
    /\ last_pool = None
    /\ last_failover_alert = 0
    /\ last_error_alert = 0
    /\ request_window = [i \in 1..19 |-> IF i <= 9 THEN 200 ELSE 502]
    /\ pc = "readline"
    /\ pool = None
    /\ exit_code = NoExit
    /\ terminated = FALSE
    /\ clock \in 0..MaxTime
    /\ out = [Quiet EXCEPT !.step = "check_error_rate"]
    /\ seen_pool = None
    /\ unreported = <<>>
    /\ triggers = [failover |-> [last |-> NoTime, count |-> 0],
                   error |-> [last |-> NoTime, count |-> 0]]

SpecFloat == InitFloat /\ [][Next]_vars

(* A sustained outage: every line the source yields is a 5xx, lines keep    *)
(* arriving, time keeps passing and the watcher is never stopped.           *)
InitBreach ==
    /\ SLACK_WEBHOOK = TRUE
    /\ MAINTENANCE_MODE \in BOOLEAN
    /\ ERROR_THRESHOLD \in Thresholds
    /\ WINDOW_SIZE \in 1..MaxWindow
    /\ COOLDOWN \in Cooldowns
    /\ source = OutageLines
    /\ InitState

\* the read loop of tail_log while the stream lasts
NextRunning ==
    \/ Tick
    \/ ReadLine
    \/ DetectFailover
    \/ CheckErrorRate

SpecBreach ==
    /\ InitBreach
    /\ [][NextRunning]_vars
    /\ WF_vars(Tick)
    /\ WF_vars(ReadLine)
    /\ WF_vars(DetectFailover)
    /\ WF_vars(CheckErrorRate)

\* ============================================================== claims
\* the steps in which a trigger reaches the cooldown check, and its outcome
FailoverStep == pc = "detect_failover" /\ pc' = "check_error_rate"
ErrorStep == pc = "check_error_rate" /\ pc' = "readline"
FailoverTriggered == FailoverStep /\ out'.alert = "failover"
ErrorTriggered == ErrorStep /\ out'.alert = "error"
FailoverSuppressed == FailoverStep /\ out'.suppressed
ErrorSuppressed == ErrorStep /\ out'.suppressed

\* C1: two alerts of one category are never triggered within COOLDOWN of each
\* other: when an alert is triggered at time t2 and the previous alert of the
\* same category was triggered at t1, then t2 - t1 > COOLDOWN.
C1_TriggersApart ==
    [][ /\ (FailoverTriggered /\ triggers.failover.last # NoTime)
            => clock - triggers.failover.last > COOLDOWN
        /\ (ErrorTriggered /\ triggers.error.last # NoTime)
            => clock - triggers.error.last > COOLDOWN ]_vars

\* both categories have triggered a second time
C1_Witness == triggers.failover.count = 2 /\ triggers.error.count = 2

\* C2: a trigger is suppressed only when an alert of its category was
\* triggered no more than COOLDOWN before it; in particular the first trigger
\* of a category dispatches, whatever the clock reads.
C2_SeparatedTriggersDispatch ==
    [][ /\ FailoverSuppressed
            => /\ triggers.failover.last # NoTime
               /\ clock - triggers.failover.last <= COOLDOWN
        /\ ErrorSuppressed
            => /\ triggers.error.last # NoTime
               /\ clock - triggers.error.last <= COOLDOWN ]_vars

\* C3: while the window holds fewer than WINDOW_SIZE entries the error-rate
\* check signals no breach and triggers no alert, whatever the window holds.
C3_NoBreachBeforeFull ==
    (out.step = "check_error_rate" /\ Len(request_window) < WINDOW_SIZE)
        => (~out.breach /\ ~out.suppressed /\ out.alert = "none" /\ out.post = "none")

\* the check ran on a short window holding nothing but 5xx
C3_Witness ==
    /\ out.step = "check_error_rate"
    /\ Len(request_window) >= 1
    /\ Len(request_window) < WINDOW_SIZE
    /\ \A i \in 1..Len(request_window) : request_window[i] >= 500

\* C4: on a full window a breach is signalled iff 100 * (number of statuses
\* >= 500) / WINDOW_SIZE > ERROR_THRESHOLD, strictly: a rate equal to the
\* threshold is no breach.
C4_BreachIffRateAbove ==
    (out.step = "check_error_rate" /\ Len(request_window) = WINDOW_SIZE)
        => (out.breach <=>
              100 * Cardinality({i \in 1..Len(request_window) : request_window[i] >= 500})
                > ERROR_THRESHOLD * WINDOW_SIZE)

\* C5: the window never holds more than WINDOW_SIZE entries and evicts first
\* in, first out: an append puts the new status last, keeps the others in
\* arrival order, and drops the oldest one iff the window was full.
AppendStep == pc = "readline" /\ pc' # "readline" /\ pc' # "exited"
C5_BoundedFifo ==
    [][ /\ Len(request_window') <= WINDOW_SIZE
        /\ AppendStep =>
             /\ Len(request_window') >= 1
             /\ request_window'[Len(request_window')] = out'.status
             /\ SubSeq(request_window', 1, Len(request_window') - 1)
                  = IF Len(request_window) = WINDOW_SIZE
                    THEN Tail(request_window) ELSE request_window ]_vars

\* an append onto a full window of at least two entries has just evicted one
C5_Witness ==
    /\ out.step = "append"
    /\ out.evicted # NoStatus
    /\ WINDOW_SIZE >= 2
    /\ Len(request_window) = WINDOW_SIZE
    /\ out.evicted # request_window[1]

\* a trigger arrives at the cooldown check of its category
FailoverArrives == FailoverStep /\ out'.event # <<>>
ErrorArrives == ErrorStep /\ out'.breach

\* C6: the failover check of the first valid pool raises no event, nor does
\* the check of a pool equal to the one last observed; the check of a pool
\* that differs raises the one event (old, new), old being the pool last
\* observed and new the pool of this line.
C6_FailoverEvents ==
    [][ FailoverStep =>
          out'.event = IF seen_pool = None \/ pool = seen_pool
                       THEN <<>> ELSE <<seen_pool, pool>> ]_vars

\* a pool change was reported as an event although its alert was suppressed
C6_Witness ==
    /\ out.step = "detect_failover"
    /\ out.event = <<Blue, Green>>
    /\ out.suppressed

\* C7: after every processed line last_pool is the valid pool observed most
\* recently, dispatched or not, and once set it is never None again.
C7_TracksLatestPool ==
    [][ /\ last_pool # None => last_pool' # None
        /\ (pc' = "readline" /\ seen_pool' # None) => last_pool' = seen_pool' ]_vars

\* a pool change whose alert the cooldown suppressed has been processed
C7_Witness ==
    /\ out.step = "detect_failover"
    /\ out.suppressed
    /\ triggers.failover.last # NoTime
    /\ last_pool = out.event[2]
    /\ last_pool # out.event[1]

\* C8: a trigger arriving while now - last_alert_time <= COOLDOWN makes no
\* POST, sends no alert and leaves both last_alert_times as they were.
C8_SuppressedChangesNothing ==
    [][ ( \/ FailoverArrives /\ clock - last_failover_alert <= COOLDOWN
          \/ ErrorArrives /\ clock - last_error_alert <= COOLDOWN )
        => /\ out'.post = "none"
           /\ out'.alert = "none"
           /\ last_failover_alert' = last_failover_alert
           /\ last_error_alert' = last_error_alert ]_vars

\* a breach was suppressed inside the cooldown of an earlier error alert
C8_Witness ==
    /\ out.step = "check_error_rate"
    /\ out.suppressed
    /\ triggers.error.last # NoTime
    /\ clock > triggers.error.last

\* C9: without a webhook, or in maintenance mode, no POST is ever made, yet a
\* trigger that passes the cooldown check sets last_alert_time to now.
C9_LocalDropKeepsCooldown ==
    [][ (~SLACK_WEBHOOK \/ MAINTENANCE_MODE)
        => /\ out'.post = "none"
           /\ (FailoverArrives /\ clock - last_failover_alert > COOLDOWN)
                => last_failover_alert' = clock
           /\ (ErrorArrives /\ clock - last_error_alert > COOLDOWN)
                => last_error_alert' = clock ]_vars

\* in maintenance mode, with a webhook, an error alert was dropped locally
C9_Witness ==
    /\ SLACK_WEBHOOK
    /\ MAINTENANCE_MODE
    /\ out.alert = "error"
    /\ out.post = "none"
    /\ last_error_alert > 0

\* C10: a failed POST ends nothing: the driver runs on with the next step,
\* last_alert_time is the trigger time, the window is untouched and last_pool
\* is what a successful POST would have left.
C10_DispatchFailureRecovered ==
    [][ ((FailoverStep \/ ErrorStep) /\ out'.post \in {"http_error", "exception"})
        => /\ exit_code' = NoExit
           /\ request_window' = request_window
           /\ FailoverStep => /\ pc' = "check_error_rate"
                              /\ last_failover_alert' = clock
                              /\ last_error_alert' = last_error_alert
                              /\ last_pool' = pool
           /\ ErrorStep => /\ pc' = "readline"
                           /\ last_error_alert' = clock
                           /\ last_failover_alert' = last_failover_alert
                           /\ last_pool' = last_pool ]_vars

\* the POST of a failover alert raised, and the driver is at the error check
C10_Witness ==
    /\ out.step = "detect_failover"
    /\ out.post = "exception"
    /\ pc = "check_error_rate"
    /\ last_failover_alert = triggers.failover.last

\* the step that pulls a line and takes it through match, parse and append
ReadStep == pc = "readline" /\ pc' # "exited" /\ clock' = clock /\ out'.line # <<>>

\* C11: a line whose pool is "-" has its status appended and the error-rate
\* check run, but no failover check: last_pool and last_failover_alert stay
\* as they are and no failover alert goes out, tracking or not.
C11_SentinelPoolSkipsFailover ==
    [][ /\ (ReadStep /\ pool' = Dash)
            => /\ pc' = "check_error_rate"
               /\ Len(request_window') >= 1
               /\ request_window'[Len(request_window')] = out'.status
               /\ last_pool' = last_pool
               /\ last_failover_alert' = last_failover_alert
        /\ (pc # "exited" /\ pool = Dash /\ pc' # pc /\ pc' # "exited")
            => /\ pc = "check_error_rate"
               /\ out'.step = "check_error_rate"
               /\ out'.alert # "failover"
               /\ last_pool' = last_pool
               /\ last_failover_alert' = last_failover_alert
               /\ triggers'.failover = triggers.failover ]_vars

\* a 502 under pool "-" sits in the window while blue is tracked
C11_Witness ==
    /\ pc = "check_error_rate"
    /\ pool = Dash
    /\ out.step = "append"
    /\ out.status = 502
    /\ last_pool = Blue
    /\ request_window[Len(request_window)] = 502

\* the three watched fields follow one another somewhere in the line
CarriesFields(line) ==
    \E i \in 1..(Len(line) - 2) :
        /\ line[i].key = "pool"
        /\ line[i + 1].key = "release"
        /\ line[i + 2].key = "upstream_status"

\* C12: a line that does not match the pattern changes nothing: not the
\* window, last_pool or either last_alert_time; no alert, no exit.
C12_UnmatchedLineIgnored ==
    [][ (ReadStep /\ ~CarriesFields(out'.line))
        => /\ UNCHANGED <<state, driver, clock, seen_pool, unreported, triggers>>
           /\ out'.alert = "none"
           /\ out'.post = "none" ]_vars

\* an unmatched line was read while the window held entries and a pool was tracked
C12_Witness ==
    /\ out.step = "nomatch"
    /\ out.line = PlainLine
    /\ Len(request_window) >= 1
    /\ last_pool # None
    /\ pc = "readline"

\* C13: the line "pool=blue release=v1 upstream_status=502 : 502 : 200"
\* records status 200, its last sub-value.
C13_SpacedRetryRecordsLast ==
    (out.step = "append" /\ out.line = SpacedRetryLine) => out.status = 200

\* C14 as stated: the failover check comes before the window record, so
\* the driver reaches the failover check with the window as the line found it.
C14_FailoverBeforeRecord ==
    [][ (pc = "readline" /\ pc' = "detect_failover")
        => request_window' = request_window ]_vars

\* C14, amended: per line the order is parse, window record, failover check
\* (if the pool is there and not "-"), error-rate check; the next line is
\* pulled only when the error-rate check of this one is over.
C14_StrictOrder ==
    [][ /\ (ReadStep /\ CarriesFields(out'.line))
            => /\ Len(request_window') >= 1
               /\ request_window'[Len(request_window')] = out'.status
               /\ pc' = IF pool' # Dash THEN "detect_failover" ELSE "check_error_rate"
               /\ UNCHANGED <<last_pool, last_failover_alert, last_error_alert>>
        /\ (pc = "detect_failover" /\ pc' # pc /\ pc' # "exited")
            => /\ pc' = "check_error_rate"
               /\ out'.step = "detect_failover"
               /\ UNCHANGED <<request_window, last_error_alert>>
        /\ (pc = "check_error_rate" /\ pc' # pc /\ pc' # "exited")
            => /\ pc' = "readline"
               /\ out'.step = "check_error_rate"
               /\ UNCHANGED <<request_window, last_pool, last_failover_alert>>
        /\ request_window' # request_window => pc = "readline"
        /\ (out'.line # <<>> /\ out'.line # out.line) => pc = "readline" ]_vars

\* the failover check is about to run and the status is in the window already
C14_Witness ==
    /\ pc = "detect_failover"
    /\ out.step = "append"
    /\ Len(request_window) >= 1
    /\ request_window[Len(request_window)] = out.status
    /\ last_pool # None
    /\ pool # last_pool

\* C15: when the source ends or fails without an interrupt, the process
\* terminates the source handle and exits non-zero; exit code 0 means an
\* interrupt.
C15_UnexpectedEndExitsNonZero ==
    pc = "exited" =>
        /\ out.signal # "KeyboardInterrupt" => (terminated /\ exit_code # 0)
        /\ exit_code = 0 => out.signal = "KeyboardInterrupt"

\* C16: an interrupt stops the driver: tail is terminated, the exit code is
\* 0, and from then on no line is pulled, no alert evaluated or sent, and the
\* window, last_pool and the last_alert_times stay as they are.
C16_InterruptStopsDriver ==
    [][ /\ out'.signal = "KeyboardInterrupt"
            => (pc' = "exited" /\ terminated' /\ exit_code' = 0)
        /\ (out.signal # "KeyboardInterrupt" /\ out'.signal = "KeyboardInterrupt")
            => UNCHANGED <<state, triggers, seen_pool>>
        /\ out.signal = "KeyboardInterrupt" => UNCHANGED vars ]_vars

\* interrupted between the append and the checks of a line that changes pool
C16_Witness ==
    /\ out.signal = "KeyboardInterrupt"
    /\ out.step = "append"
    /\ pc = "exited"
    /\ last_pool # None
    /\ pool # Dash
    /\ pool # last_pool

\* C17: each category has its own timer: the failover check never touches
\* last_error_alert nor the error check last_failover_alert, and a trigger
\* goes out whenever the cooldown of its own category has expired, so one
\* line can raise both alerts.
C17_IndependentTimers ==
    [][ /\ FailoverStep => (last_error_alert' = last_error_alert
                            /\ triggers'.error = triggers.error)
        /\ ErrorStep => (last_failover_alert' = last_failover_alert
                         /\ triggers'.failover = triggers.failover)
        /\ (FailoverArrives /\ clock - last_failover_alert > COOLDOWN)
            => out'.alert = "failover"
        /\ (ErrorArrives /\ clock - last_error_alert > COOLDOWN)
            => out'.alert = "error" ]_vars

\* one line has raised a failover alert and an error alert
C17_Witness ==
    /\ pc = "readline"
    /\ out.step = "check_error_rate"
    /\ out.line_alerts = {"failover", "error"}

\* C18: a line that carries upstream_status but no pool field takes no part
\* in failover detection, yet its status is appended to the window and the
\* error-rate check runs.
C18_AbsentPoolStillRecorded ==
    [][ (ReadStep /\ out'.line = NoPoolLine)
        => /\ out'.step = "append"
           /\ out'.status = 502
           /\ request_window' = WindowAppend(request_window, 502, WINDOW_SIZE)
           /\ pc' = "check_error_rate" ]_vars

\* C19 as stated: after a suppressed change old -> new, the next failover
\* alert carries new as its 'from' pool and does not name (old, new).
C19_NextAlertLeavesNew ==
    [][ (FailoverTriggered /\ unreported # <<>>)
        => /\ out'.msg[1] = unreported[2]
           /\ out'.msg # unreported ]_vars

\* C19: a suppressed failover is never queued or replayed.  The suppressed
\* change still moves the tracked pool; every failover alert is raised by a
\* line whose pool differs from the pool tracked just before it and names
\* exactly (tracked pool, pool of the line); a line with the tracked pool
\* raises nothing, whatever was suppressed before and however long ago.
C19_NoReplay ==
    [][ /\ FailoverSuppressed
            => (last_pool' = pool /\ triggers' = triggers /\ out'.post = "none")
        /\ FailoverTriggered
            => /\ last_pool # None
               /\ pool # last_pool
               /\ out'.msg = <<last_pool, pool>>
               /\ last_pool' = pool
        /\ (FailoverStep /\ pool = last_pool)
            => (out'.alert = "none" /\ out'.post = "none") ]_vars

\* a failover alert raised after a suppressed change, the pools having
\* flipped back in between: it names the pair of its own line
C19_Witness ==
    /\ out.alert = "failover"
    /\ out.unreported # <<>>
    /\ out.msg[1] # out.unreported[2]
    /\ last_pool = out.msg[2]

\* C20: the error-rate alert is level-triggered and re-arms.  While every
\* line is a 5xx, the window stays in breach; a breach seen more than
\* COOLDOWN after the previous error trigger triggers again at once, and
\* (lines arriving, time passing) every error trigger that leaves room
\* before MaxTime is followed by another one.
C20_BreachRearms ==
    /\ [][ (ErrorArrives /\ triggers.error.count > 0
            /\ clock - triggers.error.last > COOLDOWN)
           => (out'.alert = "error" /\ triggers'.error.last = clock) ]_vars
    /\ \A t \in 0..MaxTime :
          (triggers.error.last = t /\ t + COOLDOWN < MaxTime)
              ~> (triggers.error.last > t)

\* a second error trigger, the window having held nothing but 5xx throughout
C20_Witness ==
    /\ source = OutageLines
    /\ triggers.error.count = 2
    /\ out.alert = "error"
    /\ Len(request_window) = WINDOW_SIZE
    /\ ErrorCount(request_window) = WINDOW_SIZE
    /\ pc = "readline"

====
